---- MODULE Spec2Model ----
(***************************************************************************)
(* Streaming tag parser of vera-health-app: tagParser.ts (the regular      *)
(* expressions TAG_REGEX and INCOMPLETE_TAG_REGEX, extractCompleteTags,    *)
(* detectIncompleteTag, parseIntoOrderedContent), the StreamBuffer class   *)
(* of streamBuffer.ts, the chat store and the message path of the          *)
(* useStreamingAPI hook.                                                   *)
(*                                                                         *)
(* A string is a sequence of one-character strings.  Offsets are the       *)
(* 0-based offsets of the TypeScript code: offset i is element i + 1.      *)
(***************************************************************************)
EXTENDS Integers, Sequences, FiniteSets, TLC

VARIABLES
    buffer,               \* StreamBuffer.buffer
    contentIdCounter,     \* StreamBuffer.contentIdCounter
    lastProcessedLength,  \* StreamBuffer.lastProcessedLength
    now,                  \* the clock Date.now() reads
    parseResult,          \* what the last parseIntoOrderedContent(buffer) returned
    result,               \* what the last parseAndExtract() / flush() returned
    parsed,               \* the buffer that last call parsed (history)
    chunks,               \* the fragments appended since the last flush() / clear() (history)
    calls,                \* the parseAndExtract() / flush() calls made so far (history)
    delivered,            \* the fragments appended so far (history)
    lastCall,             \* which of parseAndExtract() / flush() was called last (history)
    issued,               \* the section ids the StreamBuffer made so far, in order (history)
    store,                \* useChatStore: the ChatState
    eventSourceRef,       \* useStreamingAPI: eventSourceRef.current (a connection, or 0)
    retryCountRef,        \* useStreamingAPI: retryCountRef.current
    timeoutIdRef,         \* useStreamingAPI: the callback timeoutIdRef.current stands for
    retryTimers,          \* the retry timers handleError set that did not fire yet
    connections,          \* the EventSource objects created and not closed
    streamingEnabled,     \* ChatScreen: the state the hook receives as `enabled`
    mounted,              \* whether ChatScreen is mounted
    opened,               \* the connections created so far (history)
    attempts,             \* the connections created since the last handleSend (history)
    bufferFrom,           \* the connections whose fragments are in the buffer (history)
    handler,              \* the handler of the hook or the screen that ran last (history)
    onErrorCalls          \* the onError() calls made so far (history)

vars == <<buffer, contentIdCounter, lastProcessedLength, now, parseResult, result,
          parsed, chunks, calls, delivered, lastCall, issued,
          store, eventSourceRef, retryCountRef, timeoutIdRef, retryTimers,
          connections, streamingEnabled, mounted, opened, attempts, bufferFrom,
          handler, onErrorCalls>>

\* the state of the useStreamingAPI hook and of the store it writes
hook == <<store, eventSourceRef, retryCountRef, timeoutIdRef, retryTimers, connections,
          streamingEnabled, mounted, opened, attempts, bufferFrom, handler, onErrorCalls>>

-----------------------------------------------------------------------------
(* Bounds of the model *)

\* the number of fragments the parser is fed
MaxChunks == 4

\* the number of fragments delivered to one StreamBuffer
MaxAppends == 3

\* the number of fragments one answer is cut into
MaxFragments == 2

\* the number of messages one connection delivers
MaxMessages == 3

\* the number of parseAndExtract() / flush() calls on one StreamBuffer
MaxCalls == 2

\* the last instant of the clock
MaxNow == 1

-----------------------------------------------------------------------------
(* Characters *)

\* \w of the regular expressions, restricted to the letters the model uses
WordChars == {"a", "A", "b"}

\* the characters String.prototype.trim removes, restricted likewise
WhiteSpace == {" "}

\* String.prototype.toLowerCase on one character
LowerChar(c) == IF c = "A" THEN "a" ELSE c

toLowerCase(s) == [i \in 1..Len(s) |-> LowerChar(s[i])]

Max(S) == CHOOSE x \in S : \A y \in S : y <= x

Min(S) == CHOOSE x \in S : \A y \in S : x <= y

\* text.substring(from, to), 0-based and half-open
substring(text, from, to) == SubSeq(text, from + 1, to)

\* whether pat occurs in text at offset i
StartsWith(text, i, pat) ==
    /\ i + Len(pat) <= Len(text)
    /\ substring(text, i, i + Len(pat)) = pat

RECURSIVE TrimLeft(_)
TrimLeft(s) ==
    IF s # <<>> /\ Head(s) \in WhiteSpace THEN TrimLeft(Tail(s)) ELSE s

RECURSIVE TrimRight(_)
TrimRight(s) ==
    IF s # <<>> /\ s[Len(s)] \in WhiteSpace
    THEN TrimRight(SubSeq(s, 1, Len(s) - 1))
    ELSE s

\* trimStart() for trim()
trim_StartOnly(s) == TrimLeft(s)

\* String.prototype.trim
trim(s) == TrimRight(TrimLeft(s))

-----------------------------------------------------------------------------
(* The regular expressions of tagParser.ts *)

\* the offset after the longest run of word characters from offset i: \w+ is
\* greedy, and what follows it in both expressions (">") is no word character
RECURSIVE WordEnd(_, _)
WordEnd(text, i) ==
    IF i < Len(text) /\ text[i + 1] \in WordChars THEN WordEnd(text, i + 1) ELSE i

NoMatch == [found |-> FALSE]

\* <(\w+)[^>]*> for <(\w+)>: attributes allowed after the name
OpenTagAt_Attributes(text, i) ==
    IF i < Len(text) /\ text[i + 1] = "<"
    THEN LET e == WordEnd(text, i + 1)
             closes == {j \in e..(Len(text) - 1) : text[j + 1] = ">"}
         IN  IF e > i + 1 /\ closes # {}
             THEN [found |-> TRUE, name |-> substring(text, i + 1, e),
                   end |-> Min(closes) + 1]
             ELSE NoMatch
    ELSE NoMatch

\* <(\w+)> at offset i: the captured name and the offset after ">"
OpenTagAt(text, i) ==
    IF i < Len(text) /\ text[i + 1] = "<"
    THEN LET e == WordEnd(text, i + 1) IN
         IF e > i + 1 /\ e < Len(text) /\ text[e + 1] = ">"
         THEN [found |-> TRUE, name |-> substring(text, i + 1, e), end |-> e + 1]
         ELSE NoMatch
    ELSE NoMatch

\* <\/\1> for a captured name: the back-reference matches the captured text
\* itself (neither expression carries the i flag)
ClosingTag(name) == <<"<", "/">> \o name \o <<">">>

\* TAG_REGEX with a greedy content, ([\s\S]*) for ([\s\S]*?)
TagRegexAt_Greedy(text, i) ==
    LET open == OpenTagAt(text, i) IN
    IF ~open.found THEN NoMatch
    ELSE LET ends == {j \in open.end..Len(text) :
                         StartsWith(text, j, ClosingTag(open.name))} IN
         IF ends = {} THEN NoMatch
         ELSE [found |-> TRUE,
               index |-> i,
               name  |-> open.name,
               content |-> substring(text, open.end, Max(ends)),
               end   |-> Max(ends) + Len(open.name) + 3]

\* TAG_REGEX at offset i: <(\w+)>([\s\S]*?)<\/\1>, the content the shortest possible
TagRegexAt(text, i) ==
    LET open == OpenTagAt(text, i) IN
    IF ~open.found THEN NoMatch
    ELSE LET ends == {j \in open.end..Len(text) :
                         StartsWith(text, j, ClosingTag(open.name))} IN
         IF ends = {} THEN NoMatch
         ELSE [found |-> TRUE,
               index |-> i,
               name  |-> open.name,
               content |-> substring(text, open.end, Min(ends)),
               end   |-> Min(ends) + Len(open.name) + 3]

\* TAG_REGEX.exec(text) with TAG_REGEX.lastIndex = lastIndex: the leftmost match
TagRegexExec(text, lastIndex) ==
    LET at == {i \in lastIndex..(Len(text) - 1) : TagRegexAt(text, i).found} IN
    IF at = {} THEN NoMatch ELSE TagRegexAt(text, Min(at))

\* INCOMPLETE_TAG_REGEX at offset i: <(\w+)>(?:[\s\S](?!<\/\1>))*$ . Every
\* character after the opening tag is consumed up to the end of the text, and
\* the look-ahead is tried after each consumed character, so at the offsets
\* open.end + 1 .. Len(text) (not at open.end itself).
IncompleteRegexAt(text, i) ==
    LET open == OpenTagAt(text, i) IN
    IF ~open.found THEN NoMatch
    ELSE IF \E q \in (open.end + 1)..Len(text) :
                StartsWith(text, q, ClosingTag(open.name))
         THEN NoMatch
         ELSE [found |-> TRUE, index |-> i, name |-> open.name, end |-> Len(text)]

\* text.match(INCOMPLETE_TAG_REGEX): the leftmost match (no g flag)
IncompleteRegexMatch(text) ==
    LET at == {i \in 0..(Len(text) - 1) : IncompleteRegexAt(text, i).found} IN
    IF at = {} THEN NoMatch ELSE IncompleteRegexAt(text, Min(at))

-----------------------------------------------------------------------------
(* tagParser.ts *)

\* config.ts: TAG_NAMES, the configured names ('guideline', 'drug', ...), one
\* letter standing for each word; the name b is not configured
TAG_NAMES == {<<"a">>}

\* tagParser.ts: isValidTagName
isValidTagName(tagName) == toLowerCase(tagName) \in TAG_NAMES

\* extractCompleteTags that keeps only the tags isValidTagName accepts
RECURSIVE ExtractFrom_Whitelist(_, _)
ExtractFrom_Whitelist(text, lastIndex) ==
    LET match == TagRegexExec(text, lastIndex) IN
    IF ~match.found THEN <<>>
    ELSE (IF isValidTagName(match.name)
          THEN <<[tagName    |-> toLowerCase(match.name),
                  content    |-> match.content,
                  startIndex |-> match.index,
                  endIndex   |-> match.end,
                  isComplete |-> TRUE]>>
          ELSE <<>>)
         \o ExtractFrom_Whitelist(text, match.end)

\* extractCompleteTags that keeps the name as it was written
RECURSIVE ExtractFrom_KeepCase(_, _)
ExtractFrom_KeepCase(text, lastIndex) ==
    LET match == TagRegexExec(text, lastIndex) IN
    IF ~match.found THEN <<>>
    ELSE <<[tagName    |-> match.name,
            content    |-> match.content,
            startIndex |-> match.index,
            endIndex   |-> match.end,
            isComplete |-> TRUE]>>
         \o ExtractFrom_KeepCase(text, match.end)

RECURSIVE ExtractFrom(_, _)
ExtractFrom(text, lastIndex) ==
    LET match == TagRegexExec(text, lastIndex) IN
    IF ~match.found THEN <<>>
    ELSE <<[tagName    |-> toLowerCase(match.name),
            content    |-> match.content,
            startIndex |-> match.index,
            endIndex   |-> match.end,
            isComplete |-> TRUE]>>
         \o ExtractFrom(text, match.end)

extractCompleteTags(text) == ExtractFrom(text, 0)

null == [isNull |-> TRUE]

detectIncompleteTag(text) ==
    LET match == IncompleteRegexMatch(text) IN
    IF match.found
    THEN LET startIndex == match.index
             openingTagEnd == startIndex + Len(match.name) + 2
         IN  [isNull     |-> FALSE,
              tagName    |-> toLowerCase(match.name),
              content    |-> substring(text, openingTagEnd, Len(text)),
              startIndex |-> startIndex,
              endIndex   |-> Len(text),
              isComplete |-> FALSE]
    ELSE null

\* [...completeTags].sort((a, b) => a.startIndex - b.startIndex): a stable
\* insertion sort by startIndex
RECURSIVE InsertByStart(_, _)
InsertByStart(tag, sorted) ==
    IF sorted = <<>> THEN <<tag>>
    ELSE IF tag.startIndex < Head(sorted).startIndex
         THEN <<tag>> \o sorted
         ELSE <<Head(sorted)>> \o InsertByStart(tag, Tail(sorted))

RECURSIVE SortByStart(_)
SortByStart(tags) ==
    IF tags = <<>> THEN <<>>
    ELSE InsertByStart(tags[Len(tags)], SortByStart(SubSeq(tags, 1, Len(tags) - 1)))

TextItem(content, order) ==
    [type |-> "text", content |-> content, order |-> order]

\* a section whose content is trimmed as the text runs are
SectionItem_Trimmed(tag) ==
    [type |-> "section", content |-> trim(tag.content), tagName |-> tag.tagName,
     order |-> tag.startIndex]

SectionItem(tag) ==
    [type |-> "section", content |-> tag.content, tagName |-> tag.tagName,
     order |-> tag.startIndex]

\* the text before a tag ordered at the tag's start, not at the cursor
TagItems_OrderAtTag(text, tag, lastIndex) ==
    LET textBefore == trim(substring(text, lastIndex, tag.startIndex)) IN
    (IF tag.startIndex > lastIndex /\ textBefore # <<>>
     THEN <<TextItem(textBefore, tag.startIndex)>>
     ELSE <<>>)
    \o <<SectionItem(tag)>>

\* the items one tag of sortedTags.forEach adds, with the cursor at lastIndex
TagItems(text, tag, lastIndex) ==
    LET textBefore == trim(substring(text, lastIndex, tag.startIndex)) IN
    (IF tag.startIndex > lastIndex /\ textBefore # <<>>
     THEN <<TextItem(textBefore, lastIndex)>>
     ELSE <<>>)
    \o <<SectionItem(tag)>>

\* sortedTags.forEach(...) from tag k on: the items and the final lastIndex
RECURSIVE ForEachTag(_, _, _, _, _)
ForEachTag(text, sortedTags, k, lastIndex, items) ==
    IF k > Len(sortedTags) THEN [contentItems |-> items, lastIndex |-> lastIndex]
    ELSE ForEachTag(text, sortedTags, k + 1, sortedTags[k].endIndex,
                    items \o TagItems(text, sortedTags[k], lastIndex))

\* the remainder shown whole, the pending tag not looked at
RemainingItems_IgnorePending(text, lastIndex, incompleteTag) ==
    IF lastIndex < Len(text)
    THEN LET textAfter == trim(substring(text, lastIndex, Len(text))) IN
         IF textAfter # <<>> THEN <<TextItem(textAfter, lastIndex)>> ELSE <<>>
    ELSE <<>>

\* "Add remaining text after last tag (if any)"
RemainingItems(text, lastIndex, incompleteTag) ==
    IF lastIndex < Len(text)
    THEN IF ~incompleteTag.isNull
         THEN LET textBefore ==
                      trim(substring(text, lastIndex, incompleteTag.startIndex)) IN
              IF incompleteTag.startIndex > lastIndex /\ textBefore # <<>>
              THEN <<TextItem(textBefore, lastIndex)>>
              ELSE <<>>
         ELSE LET textAfter == trim(substring(text, lastIndex, Len(text))) IN
              IF textAfter # <<>> THEN <<TextItem(textAfter, lastIndex)>> ELSE <<>>
    ELSE <<>>

parseIntoOrderedContent(text) ==
    LET completeTags  == extractCompleteTags(text)
        incompleteTag == detectIncompleteTag(text)
        sortedTags    == SortByStart(completeTags)
        walked        == ForEachTag(text, sortedTags, 1, 0, <<>>)
    IN  [contentItems     |-> walked.contentItems
                              \o RemainingItems(text, walked.lastIndex, incompleteTag),
         hasIncompleteTag |-> ~incompleteTag.isNull]

-----------------------------------------------------------------------------
(* streamBuffer.ts *)

\* the number of section items among the first k items
RECURSIVE SectionsBefore(_, _)
SectionsBefore(items, k) ==
    IF k = 0 THEN 0
    ELSE SectionsBefore(items, k - 1) + (IF items[k].type = "section" THEN 1 ELSE 0)

\* the sections of a list: how often one map runs contentIdCounter++
Sections(items) == SectionsBefore(items, Len(items))

\* `section-${Date.now()}-${this.contentIdCounter++}`
SectionId(time, counter) == <<"section", time, counter>>

\* parseResult.contentItems.map(...) of parseAndExtract() and of flush(): the
\* k-th item, with the counter at `counter` before the map
ToContentItem(items, k, time, counter) ==
    IF items[k].type = "text"
    THEN [type |-> "text", content |-> items[k].content, order |-> items[k].order]
    ELSE [type    |-> "section",
          section |-> [id          |-> SectionId(time, counter + SectionsBefore(items, k - 1)),
                       tagName     |-> items[k].tagName,
                       content     |-> items[k].content,
                       isComplete  |-> TRUE,
                       isCollapsed |-> TRUE],
          order   |-> items[k].order]

ToContentItems(items, time, counter) ==
    [k \in 1..Len(items) |-> ToContentItem(items, k, time, counter)]

\* the ids of the sections of a ContentItem list, in list order
RECURSIVE Ids(_)
Ids(contentItems) ==
    IF contentItems = <<>> THEN <<>>
    ELSE (IF Head(contentItems).type = "section"
          THEN <<Head(contentItems).section.id>> ELSE <<>>)
         \o Ids(Tail(contentItems))

NoResult == [contentItems |-> <<>>, hasIncompleteTag |-> FALSE]

\* the fragments the transport delivers to one StreamBuffer
BufferChunks ==
    { <<"b", " ", "<", "a">>,
      <<">", "b", "<", "/", "a", ">", " ", "b">>,
      <<"<", "a", ">">>,
      <<"<", "a", ">", "b", "<", "/", "a", ">">> }

\* the fragments the parser is fed
ParserChunks ==
    { <<"<", "a", ">">>,
      <<"<", "/", "a", ">">>,
      <<"<", "A", ">">>,
      <<"<", "b", ">">>,
      <<"b">>,
      <<" ">>,
      <<"<">>,
      <<"/", "a", ">">> }

\* chatStore: initialState
initialState ==
    [currentQuestion |-> <<>>,
     contentItems    |-> <<>>,
     streamingState  |-> "idle",
     error           |-> "null",
     rawContent      |-> <<>>]

Init ==
    /\ buffer = <<>>
    /\ contentIdCounter = 0
    /\ lastProcessedLength = 0
    /\ now = 0
    /\ parseResult = NoResult
    /\ result = NoResult
    /\ parsed = <<>>
    /\ chunks = <<>>
    /\ calls = 0
    /\ delivered = 0
    /\ lastCall = "none"
    /\ issued = <<>>
    /\ store = initialState
    /\ eventSourceRef = 0
    /\ retryCountRef = 0
    /\ timeoutIdRef = "null"
    /\ retryTimers = <<>>
    /\ connections = {}
    /\ streamingEnabled = FALSE
    /\ mounted = TRUE
    /\ opened = 0
    /\ attempts = 0
    /\ bufferFrom = {}
    /\ handler = "none"
    /\ onErrorCalls = 0

\* this.buffer = chunk for this.buffer += chunk
append_Overwrite(chunk) ==
    /\ buffer' = chunk
    /\ chunks' = Append(chunks, chunk)
    /\ delivered' = delivered + 1
    /\ UNCHANGED <<contentIdCounter, lastProcessedLength, now, parseResult, result,
                   parsed, calls, lastCall, issued, hook>>

\* StreamBuffer.append(chunk)
append(chunk) ==
    /\ buffer' = buffer \o chunk
    /\ chunks' = Append(chunks, chunk)
    /\ delivered' = delivered + 1
    /\ UNCHANGED <<contentIdCounter, lastProcessedLength, now, parseResult, result,
                   parsed, calls, lastCall, issued, hook>>

\* parseAndExtract() that takes what it parsed out of the buffer
parseAndExtract_Consume ==
    /\ calls < MaxCalls
    /\ parseResult' = parseIntoOrderedContent(buffer)
    /\ result' = [contentItems     |-> ToContentItems(parseResult'.contentItems, now,
                                                       contentIdCounter),
                  hasIncompleteTag |-> parseResult'.hasIncompleteTag]
    /\ contentIdCounter' = contentIdCounter + Sections(parseResult'.contentItems)
    /\ parsed' = buffer
    /\ buffer' = <<>>
    /\ calls' = calls + 1
    /\ lastCall' = "parseAndExtract"
    /\ issued' = issued \o Ids(result'.contentItems)
    /\ UNCHANGED <<lastProcessedLength, now, chunks, delivered, hook>>

\* StreamBuffer.parseAndExtract()
parseAndExtract ==
    /\ calls < MaxCalls
    /\ parseResult' = parseIntoOrderedContent(buffer)
    /\ result' = [contentItems     |-> ToContentItems(parseResult'.contentItems, now,
                                                       contentIdCounter),
                  hasIncompleteTag |-> parseResult'.hasIncompleteTag]
    /\ contentIdCounter' = contentIdCounter + Sections(parseResult'.contentItems)
    /\ parsed' = buffer
    /\ calls' = calls + 1
    /\ lastCall' = "parseAndExtract"
    /\ issued' = issued \o Ids(result'.contentItems)
    /\ UNCHANGED <<buffer, lastProcessedLength, now, chunks, delivered, hook>>

\* flush() that reports nothing pending at the end of the stream
flush_NothingPending ==
    /\ calls < MaxCalls
    /\ parseResult' = parseIntoOrderedContent(buffer)
    /\ result' = [contentItems     |-> ToContentItems(parseResult'.contentItems, now,
                                                       contentIdCounter),
                  hasIncompleteTag |-> FALSE]
    /\ contentIdCounter' = contentIdCounter + Sections(parseResult'.contentItems)
    /\ parsed' = buffer
    /\ buffer' = <<>>
    /\ chunks' = <<>>
    /\ calls' = calls + 1
    /\ lastCall' = "flush"
    /\ issued' = issued \o Ids(result'.contentItems)
    /\ UNCHANGED <<lastProcessedLength, now, delivered, hook>>

\* StreamBuffer.flush()
flush ==
    /\ calls < MaxCalls
    /\ parseResult' = parseIntoOrderedContent(buffer)
    /\ result' = [contentItems     |-> ToContentItems(parseResult'.contentItems, now,
                                                       contentIdCounter),
                  hasIncompleteTag |-> parseResult'.hasIncompleteTag]
    /\ contentIdCounter' = contentIdCounter + Sections(parseResult'.contentItems)
    /\ parsed' = buffer
    /\ buffer' = <<>>
    /\ chunks' = <<>>
    /\ calls' = calls + 1
    /\ lastCall' = "flush"
    /\ issued' = issued \o Ids(result'.contentItems)
    /\ UNCHANGED <<lastProcessedLength, now, delivered, hook>>

\* clear() that resets the counters and keeps the text
clear_KeepBuffer ==
    /\ contentIdCounter' = 0
    /\ lastProcessedLength' = 0
    /\ chunks' = <<>>
    /\ UNCHANGED <<buffer, now, parseResult, result, parsed, calls, delivered, lastCall,
                   issued, hook>>

\* StreamBuffer.clear()
clear ==
    /\ buffer' = <<>>
    /\ contentIdCounter' = 0
    /\ lastProcessedLength' = 0
    /\ chunks' = <<>>
    /\ UNCHANGED <<now, parseResult, result, parsed, calls, delivered, lastCall, issued,
                   hook>>

\* time passes between two calls
Tick ==
    /\ now < MaxNow
    /\ now' = now + 1
    /\ UNCHANGED <<buffer, contentIdCounter, lastProcessedLength, parseResult, result,
                   parsed, chunks, calls, delivered, lastCall, issued, hook>>

Next ==
    \/ \E chunk \in BufferChunks : delivered < MaxAppends /\ append(chunk)
    \/ parseAndExtract
    \/ flush
    \/ clear
    \/ Tick

\* one StreamBuffer, used by its owner in any order
Spec == Init /\ [][Next]_vars

\* parseIntoOrderedContent(buffer), applied to the buffer as it stands
Parse ==
    /\ parseResult' = parseIntoOrderedContent(buffer)
    /\ parsed' = buffer
    /\ UNCHANGED <<buffer, contentIdCounter, lastProcessedLength, now, result,
                   chunks, calls, delivered, lastCall, issued, hook>>

NextParser ==
    \/ \E chunk \in ParserChunks : delivered < MaxChunks /\ append(chunk)
    \/ Parse

\* the parser alone, as a function of a growing buffer
SpecParser == Init /\ [][NextParser]_vars

\* the fragments of the markup runs: tags of either letter case, an empty tag
\* of another name, text, an opening tag with an attribute, a lone "<"
MarkupChunks ==
    { <<"<", "a", ">">>,
      <<"<", "/", "a", ">">>,
      <<"<", "A", ">">>,
      <<"<", "/", "A", ">">>,
      <<"<", "b", ">", "<", "/", "b", ">">>,
      <<"b">>,
      <<"<", "a", " ", "b", ">">>,
      <<"<">> }

NextMarkup ==
    \/ \E chunk \in MarkupChunks : delivered < MaxChunks /\ append(chunk)
    \/ Parse

\* the parser alone, fed well-formed and malformed markup
SpecMarkup == Init /\ [][NextMarkup]_vars

\* the answer the transport streams in the split runs: text, a tag with a
\* two-letter name and content, text ("Some text <guideline>Content</guideline>"
\* and a tail, one letter for each word)
Answer == <<"b", " ", "<", "a", "b", ">", "b", "<", "/", "a", "b", ">", " ", "b">>

IsPrefix(s, t) == Len(s) <= Len(t) /\ SubSeq(t, 1, Len(s)) = s

\* every piece of the answer, the empty one included
SplitChunks == {substring(Answer, i, j) : i \in 0..Len(Answer), j \in 0..Len(Answer)}

NextSplit ==
    \/ \E chunk \in SplitChunks :
           /\ delivered < MaxFragments
           /\ IsPrefix(buffer \o chunk, Answer)
           /\ append(chunk)
    \/ parseAndExtract

\* one answer, cut into fragments at any offsets, appended to a StreamBuffer
SpecSplit == Init /\ [][NextSplit]_vars

-----------------------------------------------------------------------------
(* chatStore.ts, useStreamingAPI and the ChatScreen that drives it *)

\* the fragments one connection delivers (chunk.content), the empty one included
StreamChunks ==
    { <<>>,
      <<"<", "a", ">", "b", "<", "/", "a", ">">>,
      <<" ", "b">>,
      <<"<", "a", ">">> }

\* the state startStreaming() leaves for a question that was set: the error
\* and the raw content reset, the StreamBuffer created or cleared, the state
\* 'streaming', the connection open and the initial timeout pending
InitStream ==
    /\ buffer = <<>>
    /\ contentIdCounter = 0
    /\ lastProcessedLength = 0
    /\ now = 0
    /\ parseResult = NoResult
    /\ result = NoResult
    /\ parsed = <<>>
    /\ chunks = <<>>
    /\ calls = 0
    /\ delivered = 0
    /\ lastCall = "none"
    /\ issued = <<>>
    /\ store = [initialState EXCEPT !.currentQuestion = <<"b">>,
                                    !.streamingState = "streaming"]
    /\ eventSourceRef = 1
    /\ retryCountRef = 0
    /\ timeoutIdRef = "initial"
    /\ retryTimers = <<>>
    /\ connections = {1}
    /\ streamingEnabled = TRUE
    /\ mounted = TRUE
    /\ opened = 1
    /\ attempts = 1
    /\ bufferFrom = {}
    /\ handler = "handleSend"
    /\ onErrorCalls = 0

\* useStreamingAPI.handleMessage(chunk), called by the 'message' listener of
\* the connection es, content = chunk.content: append, appendRawContent,
\* parseAndExtract, setContentItems when the list is not empty; then the
\* inactivity timer replaces the pending timer
handleMessage(es, content) ==
    /\ es \in connections
    /\ IF content # <<>>
       THEN /\ buffer' = buffer \o content
            /\ chunks' = Append(chunks, content)
            /\ bufferFrom' = bufferFrom \cup {es}
            /\ parseResult' = parseIntoOrderedContent(buffer')
            /\ result' = [contentItems     |-> ToContentItems(parseResult'.contentItems,
                                                               now, contentIdCounter),
                          hasIncompleteTag |-> parseResult'.hasIncompleteTag]
            /\ contentIdCounter' = contentIdCounter + Sections(parseResult'.contentItems)
            /\ parsed' = buffer'
            /\ calls' = calls + 1
            /\ lastCall' = "parseAndExtract"
            /\ issued' = issued \o Ids(result'.contentItems)
            /\ store' = [store EXCEPT
                            !.rawContent = @ \o content,
                            !.contentItems = IF Len(result'.contentItems) > 0
                                             THEN result'.contentItems ELSE @]
       ELSE UNCHANGED <<buffer, chunks, bufferFrom, parseResult, result, contentIdCounter,
                        parsed, calls, lastCall, issued, store>>
    /\ delivered' = delivered + 1
    /\ timeoutIdRef' = "inactivity"
    /\ handler' = "handleMessage"
    /\ UNCHANGED <<lastProcessedLength, now, eventSourceRef, retryCountRef, retryTimers,
                   connections, streamingEnabled, mounted, opened, attempts, onErrorCalls>>

\* the callback of the inactivity timer handleMessage sets: flush(), whose
\* result is only looked at for the warning; the timer and the connection
\* dropped, the retry count reset, the state 'complete', and onComplete(),
\* which is ChatScreen.handleStreamComplete: setStreamingEnabled(false)
inactivityTimeout ==
    /\ timeoutIdRef = "inactivity"
    /\ parseResult' = parseIntoOrderedContent(buffer)
    /\ result' = [contentItems     |-> ToContentItems(parseResult'.contentItems, now,
                                                       contentIdCounter),
                  hasIncompleteTag |-> parseResult'.hasIncompleteTag]
    /\ contentIdCounter' = contentIdCounter + Sections(parseResult'.contentItems)
    /\ parsed' = buffer
    /\ buffer' = <<>>
    /\ chunks' = <<>>
    /\ bufferFrom' = {}
    /\ calls' = calls + 1
    /\ lastCall' = "flush"
    /\ issued' = issued \o Ids(result'.contentItems)
    /\ timeoutIdRef' = "null"
    /\ connections' = connections \ {eventSourceRef}
    /\ eventSourceRef' = 0
    /\ retryCountRef' = 0
    /\ store' = [store EXCEPT !.streamingState = "complete"]
    /\ streamingEnabled' = FALSE
    /\ handler' = "inactivityTimeout"
    /\ UNCHANGED <<lastProcessedLength, now, delivered, retryTimers, mounted, opened,
                   attempts, onErrorCalls>>

\* the map of toggleCollapse without its test of the id
toggled_Every(contentItems, id) ==
    [k \in 1..Len(contentItems) |->
        LET item == contentItems[k] IN
        IF item.type = "section"
        THEN [item EXCEPT !.section.isCollapsed = ~item.section.isCollapsed]
        ELSE item]

\* the list useChatStore.toggleCollapse(id) maps state.contentItems to
toggled(contentItems, id) ==
    [k \in 1..Len(contentItems) |->
        LET item == contentItems[k] IN
        IF item.type = "section" /\ item.section.id = id
        THEN [item EXCEPT !.section.isCollapsed = ~item.section.isCollapsed]
        ELSE item]

\* useChatStore.toggleCollapse(id)
toggleCollapse(id) ==
    /\ store' = [store EXCEPT !.contentItems = toggled(store.contentItems, id)]
    /\ handler' = "toggleCollapse"
    /\ UNCHANGED <<buffer, contentIdCounter, lastProcessedLength, now, parseResult,
                   result, parsed, chunks, calls, delivered, lastCall, issued,
                   eventSourceRef, retryCountRef, timeoutIdRef, retryTimers, connections,
                   streamingEnabled, mounted, opened, attempts, bufferFrom, onErrorCalls>>

\* the ids of the sections on screen, which the user can tap
SectionIds ==
    {store.contentItems[k].section.id :
        k \in {j \in 1..Len(store.contentItems) : store.contentItems[j].type = "section"}}

\* the ids toggleCollapse is called with: the sections on screen, and the id
\* of a section that is not there
ToggleIds == SectionIds \cup {SectionId(MaxNow + 1, 0)}

NextStream ==
    \/ \E es \in connections, content \in StreamChunks :
          delivered < MaxMessages /\ handleMessage(es, content)
    \/ inactivityTimeout
    \/ \E id \in ToggleIds : toggleCollapse(id)
    \/ Tick

\* one connection, from startStreaming() until it falls silent, and the user
\* tapping section headers meanwhile
SpecStream == InitStream /\ [][NextStream]_vars

\* config.ts: the retries one question is given
MAX_RETRY_ATTEMPTS == 3

\* handleSend is taken while fewer connections than this were created
MaxOpened == 2

\* the questions the user sends (trimmed and not empty: ChatInput.handleSend)
Questions == { <<"a">>, <<"b">> }

\* the fragments the server streams to the hook, the empty one included
HookChunks ==
    { <<>>,
      <<"<", "a", ">", "b", "<", "/", "a", ">">>,
      <<"<", "a", ">">> }

\* the codes of the APIError the 'message' and 'error' listeners of
\* createEventSource report
ErrorCodes == { "PARSE_ERROR", "CONNECTION_ERROR" }

\* apiService.formatAPIError(error)
formatAPIError(code) ==
    CASE code = "TIMEOUT_ERROR"    -> "Request timed out. Please try again."
      [] code = "CONNECTION_ERROR" ->
            "Unable to connect to the server. Please check your internet connection."
      [] code = "PARSE_ERROR"      ->
            "Received invalid response from server. Please try again."

\* apiService.closeEventSource(eventSource): the connections left open
closeEventSource(eventSource) == connections \ {eventSource}

\* startStreaming() without streamBufferRef.current.clear()
startStreaming_KeepBuffer(currentQuestion, state) ==
    /\ currentQuestion # <<>>
    /\ store' = [state EXCEPT !.error = "null",
                              !.rawContent = <<>>,
                              !.streamingState = "streaming"]
    /\ connections' = (connections \ {eventSourceRef}) \cup {opened + 1}
    /\ eventSourceRef' = opened + 1
    /\ opened' = opened + 1
    /\ timeoutIdRef' = "initial"
    /\ UNCHANGED <<buffer, contentIdCounter, lastProcessedLength, chunks, bufferFrom,
                   now, parseResult, result, parsed, calls, delivered, lastCall, issued,
                   mounted, onErrorCalls>>

\* useStreamingAPI.startStreaming() of a render that saw currentQuestion, the
\* store being in `state` when it is called: the connection eventSourceRef
\* holds closed, the error and the raw content reset (setError(null) also sets
\* 'idle'), the StreamBuffer cleared, the state 'streaming', a new connection
\* in eventSourceRef and the initial timeout in timeoutIdRef (createEventSource
\* is taken to return: its catch branch is handleError, as errorEvent has it)
startStreaming(currentQuestion, state) ==
    /\ currentQuestion # <<>>
    /\ store' = [state EXCEPT !.error = "null",
                              !.rawContent = <<>>,
                              !.streamingState = "streaming"]
    /\ buffer' = <<>>
    /\ contentIdCounter' = 0
    /\ lastProcessedLength' = 0
    /\ chunks' = <<>>
    /\ bufferFrom' = {}
    /\ connections' = closeEventSource(eventSourceRef) \cup {opened + 1}
    /\ eventSourceRef' = opened + 1
    /\ opened' = opened + 1
    /\ timeoutIdRef' = "initial"
    /\ UNCHANGED <<now, parseResult, result, parsed, calls, delivered, lastCall, issued,
                   mounted, onErrorCalls>>

\* ChatScreen.handleSend(question), which ChatInput calls when no stream is
\* running: clearContent(), 'idle', setQuestion, setStreamingEnabled(true);
\* then the effect of the hook runs again, as `enabled` or the question
\* changed: cleanup() of the run before, and startStreaming()
handleSend(question) ==
    /\ mounted
    /\ store.streamingState # "streaming"
    /\ opened < MaxOpened
    /\ ~streamingEnabled \/ question # store.currentQuestion
    /\ startStreaming(question, [store EXCEPT !.contentItems = <<>>,
                                              !.rawContent = <<>>,
                                              !.error = "null",
                                              !.streamingState = "idle",
                                              !.currentQuestion = question])
    /\ streamingEnabled' = TRUE
    /\ retryCountRef' = 0
    /\ attempts' = 1
    /\ handler' = "handleSend"
    /\ UNCHANGED retryTimers

\* useStreamingAPI.handleError(error), code = error.code: the pending timer
\* cleared, the connection closed; below MAX_RETRY_ATTEMPTS the count goes up
\* and a retry timer is set, which no ref keeps (its callback is of a render
\* that saw `enabled` true and this question); otherwise setError,
\* 'error', onError(), which is ChatScreen.handleStreamError, and the count reset
handleError(code) ==
    /\ timeoutIdRef' = "null"
    /\ connections' = closeEventSource(eventSourceRef)
    /\ eventSourceRef' = 0
    /\ IF retryCountRef < MAX_RETRY_ATTEMPTS
       THEN /\ retryCountRef' = retryCountRef + 1
            /\ retryTimers' = Append(retryTimers, store.currentQuestion)
            /\ UNCHANGED <<store, streamingEnabled, onErrorCalls>>
       ELSE /\ store' = [store EXCEPT !.error = formatAPIError(code),
                                      !.streamingState = "error"]
            /\ onErrorCalls' = onErrorCalls + 1
            /\ streamingEnabled' = FALSE
            /\ retryCountRef' = 0
            /\ UNCHANGED retryTimers
    /\ handler' = "handleError"
    /\ UNCHANGED <<buffer, contentIdCounter, lastProcessedLength, now, parseResult, result,
                   parsed, chunks, calls, delivered, lastCall, issued, mounted, opened,
                   attempts, bufferFrom>>

\* the 'error' listener of the connection es, or its 'message' listener when
\* the data is not JSON: onError
errorEvent(es, code) ==
    /\ es \in connections
    /\ handleError(code)

\* the callback of the timer startStreaming() sets: STREAM_TIMEOUT_MS went by
\* without a message
streamTimeout ==
    /\ timeoutIdRef = "initial"
    /\ handleError("TIMEOUT_ERROR")

\* the callback of a retry timer, the k-th pending: startStreaming() of the
\* render that made it
retryTimeout(k) ==
    /\ k \in 1..Len(retryTimers)
    /\ startStreaming(retryTimers[k], store)
    /\ retryTimers' = SubSeq(retryTimers, 1, k - 1)
                         \o SubSeq(retryTimers, k + 1, Len(retryTimers))
    /\ attempts' = attempts + 1
    /\ handler' = "retryTimeout"
    /\ UNCHANGED <<retryCountRef, streamingEnabled>>

\* useStreamingAPI.handleComplete(), which the 'close' listener of the
\* connection es calls: the timer cleared, the connection closed, the retry
\* count reset, the state 'complete', onComplete()
handleComplete(es) ==
    /\ es \in connections
    /\ timeoutIdRef' = "null"
    /\ connections' = closeEventSource(eventSourceRef)
    /\ eventSourceRef' = 0
    /\ retryCountRef' = 0
    /\ store' = [store EXCEPT !.streamingState = "complete"]
    /\ streamingEnabled' = FALSE
    /\ handler' = "handleComplete"
    /\ UNCHANGED <<buffer, contentIdCounter, lastProcessedLength, now, parseResult, result,
                   parsed, chunks, calls, delivered, lastCall, issued, retryTimers,
                   mounted, opened, attempts, bufferFrom, onErrorCalls>>

\* useStreamingAPI.cleanup(), as the effects run it when ChatScreen unmounts:
\* the timer in timeoutIdRef cleared, the connection closed, the count reset
cleanup ==
    /\ mounted
    /\ mounted' = FALSE
    /\ timeoutIdRef' = "null"
    /\ connections' = closeEventSource(eventSourceRef)
    /\ eventSourceRef' = 0
    /\ retryCountRef' = 0
    /\ handler' = "cleanup"
    /\ UNCHANGED <<buffer, contentIdCounter, lastProcessedLength, now, parseResult, result,
                   parsed, chunks, calls, delivered, lastCall, issued, store, retryTimers,
                   streamingEnabled, opened, attempts, bufferFrom, onErrorCalls>>

NextHook ==
    \/ \E question \in Questions : handleSend(question)
    \/ \E es \in connections, content \in HookChunks :
          delivered < MaxMessages /\ handleMessage(es, content)
    \/ \E es \in connections, code \in ErrorCodes : errorEvent(es, code)
    \/ \E es \in connections : handleComplete(es)
    \/ streamTimeout
    \/ inactivityTimeout
    \/ \E k \in 1..Len(retryTimers) : retryTimeout(k)
    \/ cleanup

\* the screen from its first render: questions sent, the events of the
\* connections, the timers, and the unmount
SpecHook == Init /\ [][NextHook]_vars

\* the step inactivityTimeout takes, told by the timer it consumes and the
\* handler it records
inactivityFires ==
    /\ timeoutIdRef = "inactivity"
    /\ timeoutIdRef' = "null"
    /\ handler' = "inactivityTimeout"

\* a timer that was set and is not cleared fires: the initial timeout, the
\* inactivity timer and the retry timers; what the server sends, and whether
\* it sends anything, is left open
SpecLive ==
    /\ Init
    /\ [][NextHook]_vars
    /\ WF_vars(streamTimeout)
    /\ WF_timeoutIdRef(inactivityFires)
    /\ WF_vars(\E k \in 1..Len(retryTimers) : retryTimeout(k))

-----------------------------------------------------------------------------
(* What the claims speak of *)

RECURSIVE Flatten(_)
Flatten(ss) == IF ss = <<>> THEN <<>> ELSE Head(ss) \o Flatten(Tail(ss))

\* a ContentItem list with the section ids (and the constant flags) left out
Plain(contentItems) ==
    [k \in 1..Len(contentItems) |->
        IF contentItems[k].type = "text"
        THEN contentItems[k]
        ELSE [type    |-> "section",
              content |-> contentItems[k].section.content,
              tagName |-> contentItems[k].section.tagName,
              order   |-> contentItems[k].order]]

\* an opening tag with no closing tag of its own name anywhere after it
IsUnclosed(text, i) ==
    LET open == OpenTagAt(text, i) IN
    /\ open.found
    /\ ~\E q \in open.end..Len(text) : StartsWith(text, q, ClosingTag(open.name))

UnclosedTags(text) == {i \in 0..(Len(text) - 1) : IsUnclosed(text, i)}

\* the end of the last complete tag, 0 when there is none
LastCompleteEnd(text) ==
    LET tags == extractCompleteTags(text) IN
    IF tags = <<>> THEN 0 ELSE tags[Len(tags)].endIndex

\* the unclosed opening tags at or after the end of the last complete tag
PendingTags(text) == {u \in UnclosedTags(text) : u >= LastCompleteEnd(text)}

\* the offsets inside a complete tag
CompleteSpans(text) ==
    LET tags == extractCompleteTags(text) IN
    UNION {tags[k].startIndex..(tags[k].endIndex - 1) : k \in 1..Len(tags)}

\* the offsets of the text an item was made from: a section's whole
\* <name>content</name>, a text item's trimmed run
ItemSpan(text, item) ==
    IF item.type = "section"
    THEN item.order..(item.order + 2 * Len(item.tagName) + Len(item.content) + 4)
    ELSE LET rest  == substring(text, item.order, Len(text))
             start == item.order + (Len(rest) - Len(TrimLeft(rest)))
         IN  start..(start + Len(item.content) - 1)

Covering(text, items, i) == {k \in 1..Len(items) : i \in ItemSpan(text, items[k])}

NonSpace(text) == {i \in 0..(Len(text) - 1) : text[i + 1] \notin WhiteSpace}

\* text = <n>X</m> with X free of "<" and ">": the offset where </m> starts
PairSplits(text) ==
    LET open == OpenTagAt(text, 0) IN
    IF ~open.found THEN {}
    ELSE {j \in open.end..(Len(text) - 4) :
             /\ text[j + 1] = "<" /\ text[j + 2] = "/" /\ text[Len(text)] = ">"
             /\ \A i \in (j + 3)..(Len(text) - 1) : text[i] \in WordChars
             /\ \A i \in (open.end + 1)..j : text[i] \notin {"<", ">"}}

PairOpenName(text) == OpenTagAt(text, 0).name
PairCloseName(text, j) == substring(text, j + 2, Len(text) - 1)
PairContent(text, j) == substring(text, OpenTagAt(text, 0).end, j)

-----------------------------------------------------------------------------
(* C1 *)

\* C1: a StreamBuffer that received a string in fragments, cut at any offset,
\* returns from parseAndExtract() the items (ids aside) and the flag that the
\* parse of the whole string, appended in one piece, gives.
SplitBoundaryEquivalence ==
    (calls > 0 /\ parsed = buffer) =>
        LET whole == parseIntoOrderedContent(Flatten(chunks)) IN
        /\ Plain(result.contentItems) = whole.contentItems
        /\ result.hasIncompleteTag = whole.hasIncompleteTag

\* the answer arrived in two fragments cut inside the tag name and was parsed
SplitInsideTagName ==
    /\ chunks = <<substring(Answer, 0, 4), substring(Answer, 4, Len(Answer))>>
    /\ calls > 0 /\ parsed = buffer
    /\ Plain(result.contentItems) =
           <<TextItem(<<"b">>, 0),
             [type |-> "section", content |-> <<"b">>, tagName |-> <<"a", "b">>,
              order |-> 2],
             TextItem(<<"b">>, 12)>>
    /\ ~result.hasIncompleteTag

-----------------------------------------------------------------------------
(* C2 *)

\* C2: when no opening tag of the parsed buffer is left unclosed, every
\* non-whitespace character of it lies in the source span of exactly one item.
NoGapsNoDuplicates ==
    UnclosedTags(parsed) = {} =>
        \A i \in NonSpace(parsed) :
            Cardinality(Covering(parsed, parseResult.contentItems, i)) = 1

-----------------------------------------------------------------------------
(* C3 *)

\* C3: a buffer <n>X</m> whose names n and m differ at most in letter case (X
\* not empty, free of markup) parses to the one section lower(n) with content
\* X, and no tag is pending.
CaseInsensitiveTagMatch ==
    \A j \in PairSplits(parsed) :
        (/\ toLowerCase(PairCloseName(parsed, j)) = toLowerCase(PairOpenName(parsed))
         /\ PairContent(parsed, j) # <<>>)
        => parseResult =
               [contentItems |->
                    <<[type    |-> "section",
                       content |-> PairContent(parsed, j),
                       tagName |-> toLowerCase(PairOpenName(parsed)),
                       order   |-> 0]>>,
                hasIncompleteTag |-> FALSE]

-----------------------------------------------------------------------------
(* C4 *)

\* C4, as claimed: when the buffer holds an unclosed opening tag, no item
\* holds a character from the start of the last unclosed opening tag on.
SuppressedFromLastUnclosedTag ==
    UnclosedTags(parsed) # {} =>
        \A i \in Max(UnclosedTags(parsed))..(Len(parsed) - 1) :
            Covering(parsed, parseResult.contentItems, i) = {}

\* C4, amended: when the buffer holds an unclosed opening tag at or after the
\* end of the last complete tag, no item holds a character from the start of
\* the last such tag on, and a pending tag is reported.
PendingTagSuppressed ==
    PendingTags(parsed) # {} =>
        /\ parseResult.hasIncompleteTag
        /\ \A i \in Max(PendingTags(parsed))..(Len(parsed) - 1) :
               Covering(parsed, parseResult.contentItems, i) = {}

\* text, then an unclosed tag with content: the text is out, the tag is not
PendingTagWithheld ==
    /\ PendingTags(parsed) # {}
    /\ Max(PendingTags(parsed)) + 3 < Len(parsed)
    /\ Len(parseResult.contentItems) = 1
    /\ parseResult.contentItems[1].type = "text"
    /\ parseResult.hasIncompleteTag

-----------------------------------------------------------------------------
(* C5 *)

\* C5: when the buffer holds several unclosed opening tags, every
\* non-whitespace character before the last of them and outside the complete
\* tags is in a text item.
OnlyLastUnclosedTagPending ==
    Cardinality(UnclosedTags(parsed)) >= 2 =>
        \A i \in NonSpace(parsed) :
            (i < Max(UnclosedTags(parsed)) /\ i \notin CompleteSpans(parsed)) =>
                \E k \in Covering(parsed, parseResult.contentItems, i) :
                    parseResult.contentItems[k].type = "text"

-----------------------------------------------------------------------------
(* C6 *)

\* C6: a buffer <n>X</m> whose names differ (X free of markup) comes out as
\* one text item holding the whole buffer, and as no section.
MismatchedNamesAreText ==
    \A j \in PairSplits(parsed) :
        toLowerCase(PairCloseName(parsed, j)) # toLowerCase(PairOpenName(parsed))
        => parseResult.contentItems = <<TextItem(parsed, 0)>>

-----------------------------------------------------------------------------
(* C7 *)

\* C7: hasIncompleteTag is true exactly when an unclosed opening tag lies at
\* or after the end of the last complete tag.
FlagIffPendingTag ==
    parseResult.hasIncompleteTag <=> (PendingTags(parsed) # {})

-----------------------------------------------------------------------------
(* C8 *)

StrictlyIncreasing(items) ==
    \A k \in 1..(Len(items) - 1) : items[k].order < items[k + 1].order

\* C8: the order values of the list parseIntoOrderedContent returns, and of
\* the list parseAndExtract() and flush() make of it, strictly increase.
OrderStrictlyIncreasing ==
    /\ StrictlyIncreasing(parseResult.contentItems)
    /\ StrictlyIncreasing(ToContentItems(parseResult.contentItems, now,
                                         contentIdCounter))

\* text, a section, text: three items in buffer order
ThreeItemsInOrder ==
    /\ Len(parseResult.contentItems) = 3
    /\ parseResult.contentItems[1].type = "text"
    /\ parseResult.contentItems[2].type = "section"
    /\ parseResult.contentItems[3].type = "text"

-----------------------------------------------------------------------------
(* C9 *)

\* the tag the last parse reported pending, when it lies at or after the end
\* of the last complete tag
PendingAtTail ==
    /\ parseResult.hasIncompleteTag
    /\ detectIncompleteTag(parsed).startIndex >= LastCompleteEnd(parsed)

PendingStart == detectIncompleteTag(parsed).startIndex
PendingName == OpenTagAt(parsed, PendingStart).name
PendingText == substring(parsed, OpenTagAt(parsed, PendingStart).end, Len(parsed))

\* the buffer is the parsed one, then some C free of "<", then </n>
ClosedBy(name) ==
    /\ IsPrefix(parsed, buffer)
    /\ Len(buffer) >= Len(parsed) + Len(name) + 3
    /\ substring(buffer, Len(buffer) - Len(name) - 3, Len(buffer)) = ClosingTag(name)
    /\ \A i \in (Len(parsed) + 1)..(Len(buffer) - Len(name) - 3) : buffer[i] # "<"

AppendedText(name) == substring(buffer, Len(parsed), Len(buffer) - Len(name) - 3)

ItemsThenSection ==
    parseIntoOrderedContent(buffer).contentItems =
        parseResult.contentItems
        \o <<[type    |-> "section",
              content |-> PendingText \o AppendedText(PendingName),
              tagName |-> toLowerCase(PendingName),
              order   |-> PendingStart]>>

\* whether pat occurs in text
Occurs(pat, text) == \E q \in 0..Len(text) : StartsWith(text, q, pat)

\* C9, as claimed: a tag <n> reported pending at s, with text T after it,
\* becomes the section (s, lower(n), T+C) after the items already returned,
\* once any C free of "<" and then </n> are appended.
PendingTagCloses ==
    (PendingAtTail /\ ClosedBy(PendingName)) => ItemsThenSection

\* C9, amended: the same, for every C such that T+C does not hold </n>.
PendingTagClosesOnce ==
    (/\ PendingAtTail
     /\ ClosedBy(PendingName)
     /\ ~Occurs(ClosingTag(PendingName), PendingText \o AppendedText(PendingName)))
    => ItemsThenSection

\* a pending tag with text after it was parsed, then more text and its
\* closing tag arrived
PendingTagClosed ==
    /\ PendingAtTail
    /\ ClosedBy(PendingName)
    /\ PendingText # <<>>
    /\ AppendedText(PendingName) # <<>>
    /\ ~Occurs(ClosingTag(PendingName), PendingText \o AppendedText(PendingName))
    /\ Len(parseIntoOrderedContent(buffer).contentItems)
           = Len(parseResult.contentItems) + 1

-----------------------------------------------------------------------------
(* C10 *)

\* where the source span of the k-th item ends: a section's closing tag, for a
\* text item the cursor the next item was cut at
SpanEnd(items, k) ==
    IF items[k].type = "section"
    THEN items[k].order + 2 * Len(items[k].tagName) + Len(items[k].content) + 5
    ELSE items[k + 1].order

\* the items of a parse that lie before the first unclosed opening tag of the
\* parsed buffer, the trailing text item left out
SettledItems(text, items) ==
    {k \in 1..Len(items) :
        /\ ~(k = Len(items) /\ items[k].type = "text")
        /\ \A u \in UnclosedTags(text) : SpanEnd(items, k) <= u}

Range(seq) == {seq[k] : k \in 1..Len(seq)}

\* C10: every settled item of an earlier parse is, unchanged, an item of the
\* parse of the buffer grown since; and while no tag unclosed then has been
\* closed, so is every section of the earlier parse.
SupersetUnderAppend ==
    LET later == Range(parseIntoOrderedContent(buffer).contentItems)
        items == parseResult.contentItems
    IN  /\ \A k \in SettledItems(parsed, items) : items[k] \in later
        /\ (UnclosedTags(parsed) \subseteq UnclosedTags(buffer)) =>
               \A k \in 1..Len(items) :
                   items[k].type = "section" => items[k] \in later

\* a section was returned, and the buffer has since grown by another section
SectionKeptWhileGrowing ==
    /\ Len(buffer) > Len(parsed)
    /\ SettledItems(parsed, parseResult.contentItems) # {}
    /\ UnclosedTags(parsed) # {}
    /\ Len(parseIntoOrderedContent(buffer).contentItems)
           > Len(parseResult.contentItems)

-----------------------------------------------------------------------------
(* The StreamBuffer calls *)

\* C11: what flush() returned is, ids left out, the item list and the flag of
\* the parse of the buffer it was called on, which is what parseAndExtract()
\* returns for that buffer; until the next append the buffer is empty; and a
\* flush() of an empty buffer returns no item and no pending tag.
FlushIsFinalParse ==
    lastCall = "flush" =>
        /\ Plain(result.contentItems) = parseIntoOrderedContent(parsed).contentItems
        /\ result.hasIncompleteTag = parseIntoOrderedContent(parsed).hasIncompleteTag
        /\ (chunks = <<>> => buffer = <<>>)
        /\ (parsed = <<>> => result = NoResult)

\* flush() returned text and a section, and left the buffer empty
FlushedSection ==
    /\ lastCall = "flush"
    /\ buffer = <<>>
    /\ Len(result.contentItems) > 1
    /\ \E k \in 1..Len(result.contentItems) : result.contentItems[k].type = "section"

\* C13: no section id is made twice by one StreamBuffer, whatever calls lie
\* between and whether or not the clock has advanced.
SectionIdsNeverReused ==
    \A i, j \in 1..Len(issued) : i # j => issued[i] # issued[j]

\* C17: parseAndExtract() leaves the buffer as it was, and called on a buffer
\* that has not changed since the call before, it returns the same items (ids
\* left out) and the same flag as that call.
ParseAndExtractIdempotent ==
    [][(calls' = calls + 1 /\ lastCall' = "parseAndExtract") =>
          /\ buffer' = buffer
          /\ (lastCall = "parseAndExtract" /\ parsed = buffer) =>
                 /\ Plain(result'.contentItems) = Plain(result.contentItems)
                 /\ result'.hasIncompleteTag = result.hasIncompleteTag]_vars

\* parseAndExtract() was called twice on one buffer holding a section: the
\* second call numbered its section after the first call's
ParsedTwice ==
    /\ lastCall = "parseAndExtract"
    /\ calls = 2
    /\ parsed = buffer
    /\ Len(issued) = 2
    /\ Ids(result.contentItems) = <<issued[2]>>
    /\ issued[1] # issued[2]
    /\ delivered = 1

\* C18: after every call the buffer is the concatenation, in arrival order, of
\* the fragments appended since the last flush() or clear(); and append
\* changes no other field of the StreamBuffer.
BufferIsConcatenation ==
    [][/\ buffer' = Flatten(chunks')
       /\ (delivered' = delivered + 1 =>
               /\ contentIdCounter' = contentIdCounter
               /\ lastProcessedLength' = lastProcessedLength)]_vars

\* two fragments were appended after a flush() that returned a section
RefilledAfterFlush ==
    /\ lastCall = "flush"
    /\ issued # <<>>
    /\ Len(chunks) = 2
    /\ buffer = chunks[1] \o chunks[2]
    /\ buffer # <<>>

-----------------------------------------------------------------------------
(* The store while fragments arrive *)

\* what a section is and where it stands: its id is new with every parse
SectionKey(item) == <<item.section.tagName, item.section.content, item.order>>

\* C12: a section the user has expanded is still expanded after a further
\* fragment was handled, whenever the list then on screen still holds that
\* section (the same tag, content and position).
CollapseStatePersists ==
    [][delivered' # delivered =>
          \A k \in 1..Len(store.contentItems) :
              LET item == store.contentItems[k] IN
              (item.type = "section" /\ ~item.section.isCollapsed) =>
                  \A j \in 1..Len(store'.contentItems) :
                      LET later == store'.contentItems[j] IN
                      (later.type = "section" /\ SectionKey(later) = SectionKey(item))
                          => ~later.section.isCollapsed]_vars

-----------------------------------------------------------------------------
(* Malformed and adjacent markup *)

\* "<", word characters, ">" somewhere in the text
HasOpeningTag(text) ==
    \E i \in 1..Len(text), e \in 1..Len(text) :
        /\ text[i] = "<"
        /\ e > i + 1
        /\ text[e] = ">"
        /\ \A m \in (i + 1)..(e - 1) : text[m] \in WordChars

\* C14: a buffer whose only markup is closing tags without an opening tag,
\* lone "<" and opening tags with attributes is returned as one text item,
\* the trimmed buffer (no item when that is empty); no section, nothing pending.
StrayMarkupIsText ==
    ~HasOpeningTag(parsed) =>
        /\ parseResult.contentItems =
               IF trim(parsed) = <<>> THEN <<>>
               ELSE <<[type |-> "text", content |-> trim(parsed), order |-> 0]>>
        /\ ~parseResult.hasIncompleteTag

\* an opening tag with an attribute, content and the closing tag were parsed
AttributeTagParsed ==
    /\ parsed = <<"<", "a", " ", "b", ">", "b", "<", "/", "a", ">">>
    /\ Len(parseResult.contentItems) = 1

\* the one-letter tag names
TagNames == {<<c>> : c \in WordChars}

OpeningTag(name) == <<"<">> \o name \o <<">">>

\* text = head \o X \o tail with X free of "<" and ">"
Encloses(head, tail, text) ==
    /\ Len(text) >= Len(head) + Len(tail)
    /\ substring(text, 0, Len(head)) = head
    /\ substring(text, Len(text) - Len(tail), Len(text)) = tail
    /\ \A i \in (Len(head) + 1)..(Len(text) - Len(tail)) : text[i] \notin {"<", ">"}

\* C15: a buffer <n><m>X</m></n> with names that differ and X free of markup
\* comes out as exactly one item, the section n whose content is the literal
\* <m>X</m>, with nothing pending.
NestedTagIsContent ==
    \A n, m \in TagNames :
        LET head == OpeningTag(n) \o OpeningTag(m)
            tail == ClosingTag(m) \o ClosingTag(n)
        IN  (n # m /\ Encloses(head, tail, parsed)) =>
                /\ parseResult.contentItems =
                       <<[type    |-> "section",
                          content |-> substring(parsed, Len(OpeningTag(n)),
                                                Len(parsed) - Len(ClosingTag(n))),
                          tagName |-> toLowerCase(n),
                          order   |-> 0]>>
                /\ ~parseResult.hasIncompleteTag

\* the text from offset i read as complete tags written back to back, each
\* <n>X</n> closed by the first </n> after its opening tag: whether it is such
\* a run, and the sections of the tags in buffer order
RECURSIVE TagRun(_, _)
TagRun(text, i) ==
    IF i = Len(text) THEN [ok |-> TRUE, sections |-> <<>>]
    ELSE LET open == OpenTagAt(text, i) IN
         IF ~open.found THEN [ok |-> FALSE, sections |-> <<>>]
         ELSE LET closes == {j \in open.end..Len(text) :
                                StartsWith(text, j, ClosingTag(open.name))} IN
              IF closes = {} THEN [ok |-> FALSE, sections |-> <<>>]
              ELSE LET rest == TagRun(text, Min(closes) + Len(ClosingTag(open.name))) IN
                   [ok       |-> rest.ok,
                    sections |-> <<[type    |-> "section",
                                    content |-> substring(text, open.end, Min(closes)),
                                    tagName |-> toLowerCase(open.name),
                                    order   |-> i]>> \o rest.sections]

\* C16: a buffer that is k complete tags written back to back comes out as
\* exactly the k sections of those tags, in buffer order, each with its own
\* content, and as no text item.
SequentialTagsKeepApart ==
    TagRun(parsed, 0).ok => parseResult.contentItems = TagRun(parsed, 0).sections

\* two tags of the same name, back to back, were parsed
TwoTagsOfOneName ==
    /\ TagRun(parsed, 0).ok
    /\ Len(parseResult.contentItems) = 2
    /\ parseResult.contentItems[1].tagName = parseResult.contentItems[2].tagName
    /\ parseResult.contentItems[2].order > 0

-----------------------------------------------------------------------------
(* Text items and tag names *)

\* C19: every text item returned has content that is not empty and neither
\* begins nor ends with whitespace, so a run of whitespace alone, before,
\* between or after tags, gives no text item.
TextItemsAreTrimmed ==
    \A k \in 1..Len(parseResult.contentItems) :
        LET item == parseResult.contentItems[k] IN
        item.type = "text" =>
            /\ item.content # <<>>
            /\ Head(item.content) \notin WhiteSpace
            /\ item.content[Len(item.content)] \notin WhiteSpace

\* whitespace before and after a lone tag was parsed, and only the section came out
WhitespaceAroundTag ==
    /\ Len(parsed) > 0
    /\ Head(parsed) \in WhiteSpace
    /\ parsed[Len(parsed)] \in WhiteSpace
    /\ Len(parseResult.contentItems) = 1
    /\ parseResult.contentItems[1].type = "section"

\* C20: a buffer <n>X</n> (one name, written the same way twice; X free of
\* markup) comes out as the section X whose tagName is n in lower case, which
\* is item for item what the same buffer with the name written in lower case
\* comes out as.
TagNameLowerCased ==
    \A j \in PairSplits(parsed) :
        PairCloseName(parsed, j) = PairOpenName(parsed) =>
            LET name == toLowerCase(PairOpenName(parsed))
                X    == PairContent(parsed, j)
            IN  /\ parseResult.contentItems =
                       <<[type |-> "section", content |-> X, tagName |-> name,
                          order |-> 0]>>
                /\ parseResult.contentItems =
                       parseIntoOrderedContent(
                           OpeningTag(name) \o X \o ClosingTag(name)).contentItems

\* a tag with an upper-case name and content was parsed
UpperCaseTagParsed ==
    /\ parsed = <<"<", "A", ">", "b", "<", "/", "A", ">">>
    /\ Len(parseResult.contentItems) = 1
    /\ parseResult.contentItems[1].tagName = <<"a">>

\* C21: a buffer <w>X</w> (X free of markup) comes out as the one section X
\* named w, whether or not isValidTagName accepts w.
OpenWorldTags ==
    \A j \in PairSplits(parsed) :
        PairCloseName(parsed, j) = PairOpenName(parsed) =>
            /\ Len(parseResult.contentItems) = 1
            /\ parseResult.contentItems[1].type = "section"
            /\ parseResult.contentItems[1].tagName = toLowerCase(PairOpenName(parsed))
            /\ parseResult.contentItems[1].content = PairContent(parsed, j)

\* a tag whose name is not among TAG_NAMES was parsed into a section
UnlistedTagParsed ==
    /\ PairSplits(parsed) # {}
    /\ ~isValidTagName(PairOpenName(parsed))
    /\ Len(parseResult.contentItems) = 1
    /\ parseResult.contentItems[1].type = "section"

-----------------------------------------------------------------------------
(* An opening tag received in part *)

\* the offset of a "<" that is followed, up to the end of the text, by one or
\* more word characters and nothing else: an opening tag still without its ">"
PartialOpeners(text) ==
    {p \in 0..(Len(text) - 2) :
        /\ text[p + 1] = "<"
        /\ \A i \in (p + 2)..Len(text) : text[i] \in WordChars}

IsSuffix(s, t) == Len(s) <= Len(t) /\ SubSeq(t, Len(t) - Len(s) + 1, Len(t)) = s

\* C22: while the buffer ends with an opening tag still without its ">", the
\* last item parseAndExtract() returned is no text item that ends with that
\* partial markup; non-blank text between the last complete tag and the
\* partial tag is returned as the last item.
PartialOpeningTagWithheld ==
    (calls > 0 /\ lastCall = "parseAndExtract") =>
        \A p \in PartialOpeners(parsed) :
            LET items  == result.contentItems
                before == trim(substring(parsed, LastCompleteEnd(parsed), p))
            IN  /\ ~(/\ items # <<>>
                     /\ items[Len(items)].type = "text"
                     /\ IsSuffix(substring(parsed, p, Len(parsed)),
                                 items[Len(items)].content))
                /\ before # <<>> =>
                       /\ items # <<>>
                       /\ items[Len(items)].type = "text"
                       /\ items[Len(items)].content = before

-----------------------------------------------------------------------------
(* The hook, its connections and its timers *)

\* C23: after every fragment handleMessage handled, and after the flush() of
\* the inactivity timer, the contentItems of the store are the list that call
\* returned (section ids aside), the empty list included.
StoreIsProjection ==
    [][calls' = calls + 1 =>
          Plain(store'.contentItems) = Plain(result'.contentItems)]_vars

\* C24: whenever the hook sets the state 'complete', flush() was called after
\* the last fragment of the stream: the StreamBuffer is empty at that point.
CompletionImpliesFlush ==
    [][(store.streamingState # "complete" /\ store'.streamingState = "complete") =>
          (buffer' = <<>> /\ chunks' = <<>>)]_vars

\* C25: for one question the hook creates at most 1 + MAX_RETRY_ATTEMPTS
\* connections and the retry count never exceeds MAX_RETRY_ATTEMPTS; an error
\* on one of the first MAX_RETRY_ATTEMPTS connections of the question sets one
\* retry timer and nothing else, an error on the next one sets none, stores
\* the formatted error, sets 'error', calls onError once and resets the count.
BoundedRetry ==
    [][/\ attempts' <= 1 + MAX_RETRY_ATTEMPTS
       /\ retryCountRef' <= MAX_RETRY_ATTEMPTS
       /\ handler' = "handleError" =>
             IF attempts <= MAX_RETRY_ATTEMPTS
             THEN /\ Len(retryTimers') = Len(retryTimers) + 1
                  /\ store' = store
                  /\ onErrorCalls' = onErrorCalls
             ELSE /\ retryTimers' = retryTimers
                  /\ store'.error \in {formatAPIError(code) :
                                          code \in ErrorCodes \cup {"TIMEOUT_ERROR"}}
                  /\ store'.streamingState = "error"
                  /\ onErrorCalls' = onErrorCalls + 1
                  /\ retryCountRef' = 0]_vars

\* C26: once cleanup() has run for the unmount, no timer the hook set
\* earlier fires (the initial timeout, the inactivity timer, a retry timer)
\* and no connection is created.
CleanupCancelsTimers ==
    [][~mounted => /\ opened' = opened
                   /\ retryTimers' = retryTimers
                   /\ timeoutIdRef' = timeoutIdRef]_vars

\* C27: a connection is created with the connections before it closed and
\* the StreamBuffer and rawContent empty, and at every moment the buffer is
\* the fragments the newest connection delivered, in the order they came.
NoMixingOfAttempts ==
    [][/\ opened' # opened => /\ connections' = {opened'}
                              /\ buffer' = <<>>
                              /\ store'.rawContent = <<>>
       /\ bufferFrom' \subseteq {opened'}
       /\ buffer' = Flatten(chunks')]_vars

\* a retry is under way and the buffer holds what its connection delivered
RetryDelivered ==
    /\ attempts > 1
    /\ bufferFrom = {opened}
    /\ Len(chunks) > 1

\* C28: when the timers that are set fire, a stream that is 'streaming'
\* becomes 'complete' or 'error'.
EveryStreamTerminates ==
    (store.streamingState = "streaming") ~> (store.streamingState \in {"complete", "error"})

\* what does hold of C28: a stream that is 'streaming' becomes 'complete' or
\* 'error' unless ChatScreen unmounts meanwhile
MountedStreamTerminates ==
    (store.streamingState = "streaming" /\ mounted)
        ~> (store.streamingState \in {"complete", "error"} \/ ~mounted)

-----------------------------------------------------------------------------
(* Tapping a section header *)

\* `after` is `before` with isCollapsed flipped in the sections whose id is
\* id, and nothing else changed
FlippedOnly(before, after, id) ==
    /\ Len(after) = Len(before)
    /\ \A k \in 1..Len(before) :
          IF before[k].type = "section" /\ before[k].section.id = id
          THEN /\ after[k].type = "section"
               /\ after[k].order = before[k].order
               /\ after[k].section.isCollapsed = ~before[k].section.isCollapsed
               /\ after[k].section.id = before[k].section.id
               /\ after[k].section.tagName = before[k].section.tagName
               /\ after[k].section.content = before[k].section.content
               /\ DOMAIN after[k] = DOMAIN before[k]
               /\ DOMAIN after[k].section = DOMAIN before[k].section
          ELSE after[k] = before[k]

\* C29: toggleCollapse(id) flips isCollapsed of the section whose id is id
\* and changes nothing else in the list or in the store; with an id no
\* section has the list is as before, and toggling twice restores it.
ToggleCollapseFrame ==
    [][/\ handler' = "toggleCollapse" =>
             /\ store'.currentQuestion = store.currentQuestion
             /\ store'.streamingState = store.streamingState
             /\ store'.error = store.error
             /\ store'.rawContent = store.rawContent
             /\ DOMAIN store' = DOMAIN store
             /\ \E id \in ToggleIds : FlippedOnly(store.contentItems, store'.contentItems, id)
       /\ \A id \in ToggleIds :
             LET once == toggled(store.contentItems, id) IN
             /\ FlippedOnly(store.contentItems, once, id)
             /\ id \notin SectionIds => once = store.contentItems
             /\ toggled(once, id) = store.contentItems]_vars

\* two sections are on screen, one of them expanded by a tap
OneOfTwoExpanded ==
    /\ handler = "toggleCollapse"
    /\ \E j, k \in 1..Len(store.contentItems) :
          /\ store.contentItems[j].type = "section"
          /\ store.contentItems[k].type = "section"
          /\ ~store.contentItems[j].section.isCollapsed
          /\ store.contentItems[k].section.isCollapsed

====
